---- MODULE Spec2Model ----
(***************************************************************************)
(* A model of src/src/issue_tracker.py: the IssueTracker engine over its   *)
(* SQLite store (tables issues, cycles, modules, comments).                *)
(*                                                                         *)
(* Encoding of values.                                                     *)
(*   - A nullable column, and a Python Optional value bound to it, is an   *)
(*     option: NULL (= <<>>) or Some(v) (= <<v>>).  SQL comparisons are    *)
(*     three-valued: SqlEq and SqlNe are not true when an operand is NULL. *)
(*   - A Python str that the code looks inside (an assignee, a label, a    *)
(*     filter string, JSON text) is a sequence of one-character strings.   *)
(*   - A datetime is a natural number of half seconds; isoformat() writes  *)
(*     it as text.                                                         *)
(*   - Opaque ids (uuid4()[:8]) are naturals, drawn fresh at each create;  *)
(*     Ghost is an id that no create ever returns.                         *)
(***************************************************************************)
EXTENDS Integers, Sequences, FiniteSets, TLC

VARIABLES
    issues,     \* table issues: id -> row
    cycles,     \* table cycles: id -> row
    modules,    \* table modules: id -> row
    comments,   \* table comments: sequence of rows, in rowid order
    ret,        \* the last call: its name, its arguments, what it returned
    calls       \* create_issue calls between their SELECT and their INSERT:
                \* caller -> the project and the sequence_id it computed

vars == <<issues, cycles, modules, comments, ret, calls>>

----------------------------------------------------------------------------
(* Bounds of the model *)

MaxIssues == 2
MaxCycles == 1
MaxModules == 1
MaxComments == 2
MaxTime == 1

----------------------------------------------------------------------------
(* Values *)

NULL == <<>>
Some(v) == <<v>>
IsNull(x) == x = NULL
Val(x) == x[1]

\* SQL "a = b": true only when neither operand is NULL.
SqlEq(a, b) == ~IsNull(a) /\ ~IsNull(b) /\ a = b

\* SQL "a != b": true only when neither operand is NULL.
SqlNe(a, b) == ~IsNull(a) /\ ~IsNull(b) /\ a # b

\* Python "x or 0" on a fetched aggregate (None or a number).
OrZero(x) == IF IsNull(x) \/ Val(x) = 0 THEN 0 ELSE Val(x)

Ghost == 0
IssueIds == 1 .. MaxIssues
CycleIds == 1 .. MaxCycles
ModuleIds == 1 .. MaxModules
Times == 0 .. MaxTime

RECURSIVE SumOver(_, _)
SumOver(S, f) ==
    IF S = {} THEN 0
    ELSE LET x == CHOOSE y \in S : TRUE IN f[x] + SumOver(S \ {x}, f)

RECURSIVE SetMax(_)
SetMax(S) ==
    LET x == CHOOSE y \in S : TRUE
    IN IF S = {x} THEN x
       ELSE LET m == SetMax(S \ {x}) IN IF x > m THEN x ELSE m

Range(s) == {s[k] : k \in DOMAIN s}

----------------------------------------------------------------------------
(* json.dumps of a list of str *)

JsonEscape(ch) ==
    IF ch = "\"" THEN <<"\\", "\"">>
    ELSE IF ch = "\\" THEN <<"\\", "\\">>
    ELSE <<ch>>

RECURSIVE JsonChars(_)
JsonChars(s) == IF s = <<>> THEN <<>> ELSE JsonEscape(Head(s)) \o JsonChars(Tail(s))

JsonStr(s) == <<"\"">> \o JsonChars(s) \o <<"\"">>

RECURSIVE JsonItems(_)
JsonItems(l) ==
    IF l = <<>> THEN <<>>
    ELSE IF Len(l) = 1 THEN JsonStr(l[1])
    ELSE JsonStr(Head(l)) \o <<",", " ">> \o JsonItems(Tail(l))

json_dumps(l) == <<"[">> \o JsonItems(l) \o <<"]">>

\* A datetime t is a reading of the local wall clock, counted in half
\* seconds from the start of a minute.  isoformat() writes it as text; the
\* date, hour and minute, equal in all readings, are left out, the seconds
\* take two digits and the microseconds are written only when not zero.
Digits == <<"0", "1", "2", "3", "4", "5", "6", "7", "8", "9">>

isoformat(t) ==
    LET second == t \div 2
    IN <<Digits[(second \div 10) + 1], Digits[(second % 10) + 1]>>
          \o (IF t % 2 = 1 THEN <<".", "5", "0", "0", "0", "0", "0">> ELSE <<>>)

\* The characters of a timestamp in ASCII order.
AsciiOrder == <<".">> \o Digits

CharRank(ch) == CHOOSE k \in DOMAIN AsciiOrder : AsciiOrder[k] = ch

\* SQLite's comparison of TEXT values (BINARY collation): a <= b.
RECURSIVE TextLeq(_, _)
TextLeq(a, b) ==
    IF a = <<>> THEN TRUE
    ELSE IF b = <<>> THEN FALSE
    ELSE IF Head(a) = Head(b) THEN TextLeq(Tail(a), Tail(b))
    ELSE CharRank(Head(a)) < CharRank(Head(b))

----------------------------------------------------------------------------
(* Init: the store after _init_db on a fresh database *)

NoCall == [op |-> "init", arg |-> NULL, val |-> NULL]

Init ==
    /\ issues = <<>>
    /\ cycles = <<>>
    /\ modules = <<>>
    /\ comments = <<>>
    /\ ret = NoCall
    /\ calls = <<>>

Stored == DOMAIN issues

\* uuid.uuid4()[:8]: an id no earlier call returned.
NewIssueId == Cardinality(DOMAIN issues) + 1
NewCycleId == Cardinality(DOMAIN cycles) + 1
NewModuleId == Cardinality(DOMAIN modules) + 1

----------------------------------------------------------------------------
(* create_issue *)

\* Mutant: the WHERE project_id = ? clause dropped.
MaxSeq_AllProjects(project_id) ==
    LET S == {issues[i].sequence_id : i \in Stored}
    IN IF S = {} THEN NULL ELSE Some(SetMax(S))

\* SELECT MAX(sequence_id) FROM issues WHERE project_id = ?
MaxSeq(project_id) ==
    LET S == {issues[i].sequence_id : i \in {j \in Stored : issues[j].project_id = project_id}}
    IN IF S = {} THEN NULL ELSE Some(SetMax(S))

NextSequenceId(project_id) == OrZero(MaxSeq(project_id)) + 1

NewIssueRow(issue_id, project_id, title, description, issue_type, priority, assignees, labels, now) ==
    [id |-> issue_id,
     workspace_id |-> "default",
     project_id |-> project_id,
     sequence_id |-> NextSequenceId(project_id),
     title |-> Some(title),
     description |-> Some(description),
     type |-> Some(issue_type),
     status |-> Some("backlog"),
     priority |-> Some(priority),
     assignees |-> Some(json_dumps(assignees)),
     labels |-> Some(json_dumps(labels)),
     cycle_id |-> NULL,
     module_id |-> NULL,
     created_by |-> NULL,
     created_at |-> Some(isoformat(now)),
     updated_at |-> Some(isoformat(now)),
     due_date |-> NULL,
     estimate_points |-> NULL,
     link_count |-> 0,
     attachment_count |-> 0,
     comment_count |-> 0]

\* The model stops creating issues at MaxIssues.
Room == Cardinality(Stored) < MaxIssues

create_issue(project_id, title, description, issue_type, priority, assignees, labels, now) ==
    /\ LET issue_id == NewIssueId
       IN /\ issues' = [i \in Stored \cup {issue_id} |->
                           IF i = issue_id
                           THEN NewIssueRow(issue_id, project_id, title, description,
                                            issue_type, priority, assignees, labels, now)
                           ELSE issues[i]]
          /\ ret' = [op |-> "create_issue", arg |-> [project_id |-> project_id], val |-> issue_id]
    /\ UNCHANGED <<calls, cycles, modules, comments>>

\* create_issue as concurrent callers run it, each on a connection of its
\* own: the SELECT is one statement in autocommit mode, the INSERT and the
\* commit are one transaction; statements of other callers run in between.

\* Lines 178-181: the caller reads the maximum and computes its sequence_id.
create_issue_select(caller, project_id) ==
    /\ caller \notin DOMAIN calls
    /\ calls' = [c \in DOMAIN calls \cup {caller} |->
                    IF c = caller
                    THEN [project_id |-> project_id,
                          sequence_id |-> NextSequenceId(project_id)]
                    ELSE calls[c]]
    /\ UNCHANGED <<issues, cycles, modules, comments, ret>>

\* Mutant: the number is computed again inside the INSERT's transaction.
InsertedSequenceId_AtInsert(caller) == NextSequenceId(calls[caller].project_id)

\* The sequence_id bound to the INSERT: the one computed after the SELECT.
InsertedSequenceId(caller) == calls[caller].sequence_id

\* Lines 183-195: the caller inserts its row, commits and returns.
create_issue_insert(caller, title, description, issue_type, priority, assignees, labels, now) ==
    /\ caller \in DOMAIN calls
    /\ LET issue_id == NewIssueId
           project_id == calls[caller].project_id
           row == NewIssueRow(issue_id, project_id, title, description,
                              issue_type, priority, assignees, labels, now)
       IN /\ issues' = [i \in Stored \cup {issue_id} |->
                           IF i = issue_id
                           THEN [row EXCEPT !.sequence_id = InsertedSequenceId(caller)]
                           ELSE issues[i]]
          /\ ret' = [op |-> "create_issue", arg |-> [project_id |-> project_id], val |-> issue_id]
    /\ calls' = [c \in DOMAIN calls \ {caller} |-> calls[c]]
    /\ UNCHANGED <<cycles, modules, comments>>

----------------------------------------------------------------------------
(* update_issue and bulk_update *)

\* Mutant: update_issue filters with bulk_update's narrower list.
allowed_fields_update_Narrow ==
    {"title", "description", "status", "priority", "assignees",
     "labels", "cycle_id", "module_id"}

allowed_fields_update ==
    {"title", "description", "status", "priority", "assignees",
     "labels", "cycle_id", "module_id", "due_date", "estimate_points"}

allowed_fields_bulk ==
    {"title", "description", "status", "priority", "assignees",
     "labels", "cycle_id", "module_id"}

\* Mutant: the keyword arguments are not filtered.
FilterKwargs_Unfiltered(kwargs, allowed) == kwargs

\* updates = {k: v for k, v in kwargs.items() if k in allowed_fields}
FilterKwargs(kwargs, allowed) ==
    [k \in DOMAIN kwargs \cap allowed |-> kwargs[k]]

\* The dict that becomes the SET clause: lists as JSON text, updated_at added.
SetClause(updates, now) ==
    [k \in DOMAIN updates \cup {"updated_at"} |->
        IF k = "updated_at" THEN Some(isoformat(now))
        ELSE IF k \in {"assignees", "labels"} THEN Some(json_dumps(updates[k]))
        ELSE updates[k]]

\* UPDATE issues SET ... applied to one row.
SqlSet(row, set) ==
    [c \in DOMAIN row |-> IF c \in DOMAIN set THEN set[c] ELSE row[c]]

update_issue(issue_id, kwargs, now) ==
    LET updates == FilterKwargs(kwargs, allowed_fields_update)
    IN IF DOMAIN updates = {}
       THEN /\ ret' = [op |-> "update_issue",
                     arg |-> [issue_id |-> issue_id, names |-> DOMAIN kwargs],
                     val |-> FALSE]
            /\ UNCHANGED <<calls, issues, cycles, modules, comments>>
       ELSE /\ issues' = [i \in Stored |->
                             IF i = issue_id THEN SqlSet(issues[i], SetClause(updates, now))
                             ELSE issues[i]]
            /\ ret' = [op |-> "update_issue",
                     arg |-> [issue_id |-> issue_id, names |-> DOMAIN kwargs],
                     val |-> TRUE]
            /\ UNCHANGED <<calls, cycles, modules, comments>>

\* Mutant: the ids passed are counted, not the rows matched.
RowCount_Len(issue_ids) == Len(issue_ids)

\* c.rowcount of UPDATE ... WHERE id IN (ids): the rows that matched.
RowCount(issue_ids) == Cardinality(Range(issue_ids) \cap Stored)

bulk_update(issue_ids, kwargs, now) ==
    LET updates == FilterKwargs(kwargs, allowed_fields_bulk)
    IN IF issue_ids = <<>> \/ DOMAIN updates = {}
       THEN /\ ret' = [op |-> "bulk_update",
                     arg |-> [issue_ids |-> issue_ids, names |-> DOMAIN kwargs],
                     val |-> 0]
            /\ UNCHANGED <<calls, issues, cycles, modules, comments>>
       ELSE /\ issues' = [i \in Stored |->
                             IF i \in Range(issue_ids)
                             THEN SqlSet(issues[i], SetClause(updates, now))
                             ELSE issues[i]]
            /\ ret' = [op |-> "bulk_update",
                     arg |-> [issue_ids |-> issue_ids, names |-> DOMAIN kwargs],
                     val |-> RowCount(issue_ids)]
            /\ UNCHANGED <<calls, cycles, modules, comments>>

----------------------------------------------------------------------------
(* cycles and modules *)

create_cycle(project_id, name, start_date, end_date) ==
    /\ Cardinality(DOMAIN cycles) < MaxCycles
    /\ LET cycle_id == NewCycleId
       IN /\ cycles' = [c \in DOMAIN cycles \cup {cycle_id} |->
                           IF c = cycle_id
                           THEN [id |-> cycle_id,
                                 project_id |-> project_id,
                                 name |-> name,
                                 status |-> Some("planned"),
                                 start_date |-> Some(isoformat(start_date)),
                                 end_date |-> Some(isoformat(end_date)),
                                 issues_count |-> 0,
                                 completed_count |-> 0,
                                 progress |-> 0]
                           ELSE cycles[c]]
          /\ ret' = [op |-> "create_cycle", arg |-> [project_id |-> project_id],
                     val |-> cycle_id]
    /\ UNCHANGED <<calls, issues, modules, comments>>

\* Mutant: the assignment also refreshes updated_at, as update_issue does.
add_to_cycle_Touch(issue_id, cycle_id) ==
    /\ issues' = [i \in Stored |->
                     IF i = issue_id
                     THEN SqlSet(issues[i], [cycle_id |-> Some(cycle_id),
                                             updated_at |-> Some(isoformat(MaxTime))])
                     ELSE issues[i]]
    /\ ret' = [op |-> "add_to_cycle",
               arg |-> [issue_id |-> issue_id, cycle_id |-> cycle_id], val |-> TRUE]
    /\ UNCHANGED <<calls, cycles, modules, comments>>

add_to_cycle(issue_id, cycle_id) ==
    /\ issues' = [i \in Stored |->
                     IF i = issue_id THEN SqlSet(issues[i], [cycle_id |-> Some(cycle_id)])
                     ELSE issues[i]]
    /\ ret' = [op |-> "add_to_cycle",
               arg |-> [issue_id |-> issue_id, cycle_id |-> cycle_id], val |-> TRUE]
    /\ UNCHANGED <<calls, cycles, modules, comments>>

create_module(project_id, name, description) ==
    /\ Cardinality(DOMAIN modules) < MaxModules
    /\ LET module_id == NewModuleId
       IN /\ modules' = [m \in DOMAIN modules \cup {module_id} |->
                            IF m = module_id
                            THEN [id |-> module_id,
                                  project_id |-> project_id,
                                  name |-> name,
                                  description |-> Some(description),
                                  status |-> Some("planned"),
                                  lead |-> NULL,
                                  members |-> NULL,
                                  issues_count |-> 0]
                            ELSE modules[m]]
          /\ ret' = [op |-> "create_module", arg |-> [project_id |-> project_id],
                     val |-> module_id]
    /\ UNCHANGED <<calls, issues, cycles, comments>>

add_to_module(issue_id, module_id) ==
    /\ issues' = [i \in Stored |->
                     IF i = issue_id THEN SqlSet(issues[i], [module_id |-> Some(module_id)])
                     ELSE issues[i]]
    /\ ret' = [op |-> "add_to_module",
               arg |-> [issue_id |-> issue_id, module_id |-> module_id], val |-> TRUE]
    /\ UNCHANGED <<calls, cycles, modules, comments>>

----------------------------------------------------------------------------
(* comments *)

\* Mutant: the counter is set to 1 instead of incremented.
IncrementCommentCount_SetOne(row) ==
    [row EXCEPT !.comment_count = 1]

\* UPDATE issues SET comment_count = comment_count + 1
IncrementCommentCount(row) ==
    [row EXCEPT !.comment_count = row.comment_count + 1]

comment(issue_id, user, body, now) ==
    /\ Len(comments) < MaxComments
    /\ comments' = Append(comments, [id |-> Len(comments) + 1,
                                     issue_id |-> issue_id,
                                     user |-> user,
                                     body |-> body,
                                     created_at |-> isoformat(now)])
    /\ issues' = [i \in Stored |->
                     IF i = issue_id THEN IncrementCommentCount(issues[i])
                     ELSE issues[i]]
    /\ ret' = [op |-> "comment", arg |-> [issue_id |-> issue_id],
               val |-> Len(comments) + 1]
    /\ UNCHANGED <<calls, cycles, modules>>

\* ORDER BY created_at over rows given in rowid order: each row goes behind
\* the rows whose created_at is not greater, so rows with equal created_at
\* stay in rowid order, as SQLite returns them.
RECURSIVE OrderByCreatedAt(_)
OrderByCreatedAt(rows) ==
    IF rows = <<>> THEN <<>>
    ELSE LET last == rows[Len(rows)]
             sorted == OrderByCreatedAt(SubSeq(rows, 1, Len(rows) - 1))
             IsLeq(r) == TextLeq(r.created_at, last.created_at)
             IsGreater(r) == ~TextLeq(r.created_at, last.created_at)
         IN SelectSeq(sorted, IsLeq) \o <<last>> \o SelectSeq(sorted, IsGreater)

\* get_comments: the rows of the issue as dicts, without the issue_id column.
get_comments(issue_id) ==
    LET OfIssue(r) == r.issue_id = issue_id
        rows == OrderByCreatedAt(SelectSeq(comments, OfIssue))
    IN [k \in DOMAIN rows |-> [id |-> rows[k].id,
                               user |-> rows[k].user,
                               body |-> rows[k].body,
                               created_at |-> rows[k].created_at]]

----------------------------------------------------------------------------
(* get_issues *)

UpperCase ==
    <<"A", "B", "C", "D", "E", "F", "G", "H", "I", "J", "K", "L", "M",
      "N", "O", "P", "Q", "R", "S", "T", "U", "V", "W", "X", "Y", "Z">>

LowerCase ==
    <<"a", "b", "c", "d", "e", "f", "g", "h", "i", "j", "k", "l", "m",
      "n", "o", "p", "q", "r", "s", "t", "u", "v", "w", "x", "y", "z">>

\* SQLite's LIKE folds the case of ASCII letters.
Fold(ch) ==
    IF \E k \in DOMAIN UpperCase : UpperCase[k] = ch
    THEN LowerCase[CHOOSE k \in DOMAIN UpperCase : UpperCase[k] = ch]
    ELSE ch

\* text LIKE pattern (no ESCAPE clause): % is any run of characters, _ is any
\* one character, every other character matches itself up to ASCII case.
RECURSIVE Like(_, _)
Like(text, pattern) ==
    IF pattern = <<>> THEN text = <<>>
    ELSE IF Head(pattern) = "%"
         THEN \E k \in 0 .. Len(text) : Like(SubSeq(text, k + 1, Len(text)), Tail(pattern))
         ELSE /\ text # <<>>
              /\ Head(pattern) = "_" \/ Fold(Head(pattern)) = Fold(Head(text))
              /\ Like(Tail(text), Tail(pattern))

\* column LIKE ? on a nullable column.
SqlLike(col, pattern) == ~IsNull(col) /\ Like(Val(col), pattern)

\* f"%{filters['assignee']}%"
Percent(f) == <<"%">> \o f \o <<"%">>

\* The WHERE clause that get_issues builds.
Matches(row, project_id, filters) ==
    /\ row.project_id = project_id
    /\ "status" \in DOMAIN filters => SqlEq(row.status, filters.status)
    /\ "priority" \in DOMAIN filters => SqlEq(row.priority, filters.priority)
    /\ "assignee" \in DOMAIN filters => SqlLike(row.assignees, Percent(filters.assignee))
    /\ "label" \in DOMAIN filters => SqlLike(row.labels, Percent(filters.label))
    /\ "cycle_id" \in DOMAIN filters => SqlEq(row.cycle_id, filters.cycle_id)

\* The rows of a SELECT over issues, in rowid order (rows are never deleted,
\* so rowid order is the order of creation).
RECURSIVE SelectIds(_, _, _)
SelectIds(k, project_id, filters) ==
    IF k > Cardinality(Stored) THEN <<>>
    ELSE (IF Matches(issues[k], project_id, filters) THEN <<k>> ELSE <<>>)
            \o SelectIds(k + 1, project_id, filters)

\* get_issues: the ids of the Issue objects returned, in order.
get_issues(project_id, filters) == SelectIds(1, project_id, filters)

----------------------------------------------------------------------------
(* Python float arithmetic (IEEE-754 binary64, round to nearest, ties to    *)
(* even).  A positive float is [m |-> bits, e |-> n]: the bits of its       *)
(* significand as a natural number, lowest bit first and highest bit 1, and *)
(* the power of two that scales it; zero has no bits.                       *)

MantissaBits == 53

FloatZero == [m |-> <<>>, e |-> 0]

RECURSIVE Pow2(_)
Pow2(n) == IF n = 0 THEN 1 ELSE 2 * Pow2(n - 1)

RECURSIVE BitsToNat(_)
BitsToNat(b) == IF b = <<>> THEN 0 ELSE Head(b) + 2 * BitsToNat(Tail(b))

RECURSIVE NatToBits(_)
NatToBits(n) == IF n = 0 THEN <<>> ELSE <<n % 2>> \o NatToBits(n \div 2)

RECURSIVE AddBits(_, _, _)
AddBits(a, b, carry) ==
    IF a = <<>> /\ b = <<>> THEN (IF carry = 1 THEN <<1>> ELSE <<>>)
    ELSE LET x == IF a = <<>> THEN 0 ELSE Head(a)
             y == IF b = <<>> THEN 0 ELSE Head(b)
             sum == x + y + carry
         IN <<sum % 2>> \o AddBits(IF a = <<>> THEN <<>> ELSE Tail(a),
                                   IF b = <<>> THEN <<>> ELSE Tail(b),
                                   sum \div 2)

RECURSIVE MulBits(_, _)
MulBits(a, b) ==
    IF b = <<>> THEN <<>>
    ELSE LET rest == <<0>> \o MulBits(a, Tail(b))
         IN IF Head(b) = 1 THEN AddBits(a, rest, 0) ELSE rest

\* A significand that rounding carried to one bit too many is a power of
\* two: its lowest bit goes into the exponent.
Renormalize(m, e) ==
    IF Len(m) > MantissaBits THEN [m |-> Tail(m), e |-> e + 1]
    ELSE [m |-> m, e |-> e]

\* The natural number with bits b, scaled by 2^e, rounded to a float.
RoundBits(b, e) ==
    LET d == Len(b) - MantissaBits
    IN IF d <= 0 THEN [m |-> b, e |-> e]
       ELSE LET kept == SubSeq(b, d + 1, Len(b))
                half == b[d] = 1
                sticky == \E k \in 1 .. d - 1 : b[k] = 1
                up == half /\ (sticky \/ kept[1] = 1)
            IN Renormalize(IF up THEN AddBits(kept, <<1>>, 0) ELSE kept, e + d)

\* Long division: n more bits of the quotient, and the last remainder.
RECURSIVE LongDiv(_, _, _, _)
LongDiv(r, t, n, acc) ==
    IF n = 0 THEN [m |-> acc, r |-> r]
    ELSE LET b == IF 2 * r >= t THEN 1 ELSE 0
         IN LongDiv(2 * r - b * t, t, n - 1, <<b>> \o acc)

RECURSIVE ShiftUp(_, _)
ShiftUp(c, t) == IF c >= t THEN 0 ELSE 1 + ShiftUp(2 * c, t)

RECURSIVE ShiftDown(_, _)
ShiftDown(c, t) == IF c < 2 * t THEN 0 ELSE 1 + ShiftDown(c, 2 * t)

\* c / t for ints c >= 0 and t > 0: the float nearest to the quotient.
int_truediv(c, t) ==
    IF c = 0 THEN FloatZero
    ELSE LET down == ShiftDown(c, t)
             t2 == t * Pow2(down)
             up == ShiftUp(c, t2)
             q == LongDiv(c * Pow2(up) - t2, t2, MantissaBits - 1, <<1>>)
             roundUp == 2 * q.r > t2 \/ (2 * q.r = t2 /\ q.m[1] = 1)
         IN Renormalize(IF roundUp THEN AddBits(q.m, <<1>>, 0) ELSE q.m,
                        down - up - (MantissaBits - 1))

\* x * n for a float x and an int n >= 0 that converts exactly.
float_mul(x, n) ==
    IF x = FloatZero \/ n = 0 THEN FloatZero
    ELSE RoundBits(MulBits(x.m, NatToBits(n)), x.e)

\* int(x) for a float 0 <= x < 2^31: the fraction bits dropped.
float_int(x) ==
    IF x = FloatZero THEN 0
    ELSE IF x.e >= 0 THEN BitsToNat(x.m) * Pow2(x.e)
    ELSE IF 0 - x.e >= Len(x.m) THEN 0
    ELSE BitsToNat(SubSeq(x.m, 1 - x.e, Len(x.m)))

\* int((completed / total * 100) if total > 0 else 0)
Pct(completed, total) ==
    IF total > 0 THEN float_int(float_mul(int_truediv(completed, total), 100)) ELSE 0

----------------------------------------------------------------------------
(* analytics *)

\* Mutant: each group counted over the whole table, the WHERE clause lost.
GroupCount_WholeTable(rows, col) ==
    [v \in {issues[i][col] : i \in rows} |->
        Cardinality({i \in Stored : issues[i][col] = v})]

\* SQL COUNT(*) ... GROUP BY col over a set of rows: one entry for each value
\* of the column among the rows (NULL is a value of its own), its count.
GroupCount(rows, col) ==
    [v \in {issues[i][col] : i \in rows} |->
        Cardinality({i \in rows : issues[i][col] = v})]

\* SQL SUM over a set of rows: NULL when there is no row.
SqlSum(rows, f) == IF rows = {} THEN NULL ELSE Some(SumOver(rows, f))

get_cycle_analytics(cycle_id) ==
    LET rows == {i \in Stored : SqlEq(issues[i].cycle_id, cycle_id)}
        total == Cardinality(rows)
        completed ==
            OrZero(SqlSum(rows, [i \in rows |->
                IF SqlEq(issues[i].status, Some("done")) THEN 1 ELSE 0]))
        open == {i \in rows : SqlNe(issues[i].status, Some("done"))}
        remaining_points ==
            OrZero(SqlSum(open, [i \in open |->
                IF ~IsNull(issues[i].estimate_points)
                THEN Val(issues[i].estimate_points) ELSE 1]))
    IN [total_issues |-> total,
        completed |-> completed,
        remaining |-> total - completed,
        progress_pct |-> Pct(completed, total),
        remaining_points |-> remaining_points]

get_module_progress(module_id) ==
    LET rows == {i \in Stored : SqlEq(issues[i].module_id, module_id)}
        total == Cardinality(rows)
        by_status == GroupCount(rows, "status")
        completed == IF Some("done") \in DOMAIN by_status
                     THEN by_status[Some("done")] ELSE 0
    IN [total |-> total,
        by_status |-> by_status,
        completion_pct |-> Pct(completed, total)]

\* Mutant: the average of the cycles' live counts of "done" issues.
AvgCompleted_Live(rows) ==
    IF rows = {} THEN NULL
    ELSE Some(int_truediv(
            SumOver(rows, [c \in rows |->
                Cardinality({i \in Stored : /\ issues[i].cycle_id = Some(c)
                                            /\ issues[i].status = Some("done")})]),
            Cardinality(rows)))

\* SQL AVG(completed_count): NULL without a row, else the float sum / count.
AvgCompleted(rows) ==
    IF rows = {} THEN NULL
    ELSE Some(int_truediv(SumOver(rows, [c \in rows |-> cycles[c].completed_count]),
                          Cardinality(rows)))

\* velocity is a number, here a float: the int 0 that "or 0" yields equals
\* the float 0.0 and is written FloatZero.
get_project_analytics(project_id) ==
    LET rows == {c \in DOMAIN cycles : cycles[c].project_id = project_id}
        avg == AvgCompleted(rows)
        velocity == IF IsNull(avg) \/ Val(avg) = FloatZero THEN FloatZero ELSE Val(avg)
        mine == {i \in Stored : issues[i].project_id = project_id}
    IN [velocity |-> velocity,
        priority_distribution |-> GroupCount(mine, "priority"),
        status_distribution |-> GroupCount(mine, "status")]

----------------------------------------------------------------------------
(* Spec: one caller working on the issues of two projects.  Every issue     *)
(* operation runs on stored and on unknown ids; the keyword arguments carry *)
(* names outside the allow-lists that aim at sequence_id and project_id.    *)

Projects == {"p1", "p2"}

\* The ids a caller can pass: those create_issue has returned, and an id that
\* is not stored.  uuid4 ids are taken to be unguessable: no caller passes an
\* id before create_issue returns it.
AnyId == Stored \cup {Ghost}

\* The list of every stored id, as a caller collects them from create_issue.
AllIds == [k \in 1 .. Cardinality(Stored) |-> k]

IssuesOf(project_id) == {i \in Stored : issues[i].project_id = project_id}

Next ==
    \/ \E p \in Projects :
          Room /\ create_issue(p, "t", "", "task", "medium", <<>>, <<>>, 0)
    \/ \E i \in AnyId :
          \E kw \in {[sequence_id |-> 7, project_id |-> "p2"],
                     [cycle_id |-> Some(1), sequence_id |-> 7, project_id |-> "p2"]} :
             update_issue(i, kw, 0)
    \/ \E ids \in {<<i>> : i \in AnyId} \cup {AllIds} :
          bulk_update(ids, [module_id |-> Some(1), sequence_id |-> 7, project_id |-> "p2"], 0)
    \/ \E i \in AnyId : add_to_cycle(i, 1)
    \/ \E i \in AnyId : add_to_module(i, 1)
    \/ \E i \in {1, Ghost} : comment(i, "u", "b", 0)

Spec == Init /\ [][Next]_vars

\* C1: with a single caller, in every reachable state the sequence_ids of the
\* stored issues of each project P are exactly 1..n, n the number of issues
\* created for P, without gap or duplicate; they follow the order of the
\* create calls (ids are handed out in call order), a create_issue that just
\* returned gave its issue the number n of its project, and no operation
\* other than create_issue for P changes the numbers of P.
C1_SequenceIdsDense ==
    /\ \A p \in Projects :
          LET n == Cardinality(IssuesOf(p))
          IN /\ {issues[i].sequence_id : i \in IssuesOf(p)} = 1 .. n
             /\ \A i, j \in IssuesOf(p) :
                   i < j => issues[i].sequence_id < issues[j].sequence_id
    /\ ret.op = "create_issue" =>
          /\ ret.val \in Stored
          /\ issues[ret.val].project_id = ret.arg.project_id
          /\ issues[ret.val].sequence_id = Cardinality(IssuesOf(ret.arg.project_id))

\* C1 witness: a project owns two issues, numbered 1 and 2, after an update
\* or a cycle assignment, a module assignment and a comment have touched them.
C1_Witness ==
    /\ \E p \in Projects : Cardinality(IssuesOf(p)) = 2
    /\ \E i \in Stored :
          /\ issues[i].sequence_id = 2
          /\ issues[i].cycle_id # NULL
          /\ issues[i].module_id # NULL
    /\ issues[1].comment_count > 0

----------------------------------------------------------------------------
(* SpecComments: one caller commenting on stored and unknown issues, with   *)
(* every other issue operation in between; the keyword arguments carry the  *)
(* name comment_count, which is in neither allow-list.                      *)

NextComments ==
    \/ Room /\ create_issue("p1", "t", "", "task", "medium", <<>>, <<>>, 0)
    \/ \E i \in AnyId :
          \E kw \in {[comment_count |-> 9], [title |-> Some("t"), comment_count |-> 9]} :
             update_issue(i, kw, 0)
    \/ \E ids \in {<<i>> : i \in AnyId} \cup {AllIds} :
          bulk_update(ids, [status |-> Some("backlog"), comment_count |-> 9], 0)
    \/ \E i \in AnyId : add_to_cycle(i, 1)
    \/ \E i \in AnyId : add_to_module(i, 1)
    \/ \E i \in AnyId : comment(i, "u", "b", 0)

SpecComments == Init /\ [][NextComments]_vars

\* SELECT COUNT(*) FROM comments WHERE issue_id = ?
CommentRows(tbl, issue_id) ==
    Cardinality({k \in DOMAIN tbl : tbl[k].issue_id = issue_id})

CommentCountsMatch ==
    \A i \in Stored : issues[i].comment_count = CommentRows(comments, i)

CommentStep ==
    IF ret'.op = "comment"
    THEN /\ Len(comments') = Len(comments) + 1
         /\ SubSeq(comments', 1, Len(comments)) = comments
         /\ comments'[Len(comments')].issue_id = ret'.arg.issue_id
         /\ DOMAIN issues' = Stored
         /\ \A i \in Stored :
               issues'[i].comment_count =
                  issues[i].comment_count + (IF i = ret'.arg.issue_id THEN 1 ELSE 0)
    ELSE /\ comments' = comments
         /\ \A i \in Stored : issues'[i].comment_count = issues[i].comment_count
         /\ \A i \in DOMAIN issues' \ Stored : issues'[i].comment_count = 0

\* C2: in every reachable state the comment_count of every stored issue is the
\* number of comment rows with its id; a comment call appends exactly one row
\* and adds exactly 1 to the counter of its issue and to no other, and every
\* other operation leaves the comment rows and every counter as they were.
C2_CommentCount == []CommentCountsMatch /\ [][CommentStep]_vars

\* C2 witness: an issue that was put in a cycle carries two comments.
C2_Witness ==
    \E i \in Stored :
       /\ issues[i].comment_count = 2
       /\ CommentRows(comments, i) = 2
       /\ issues[i].cycle_id # NULL

----------------------------------------------------------------------------
(* SpecUpdate and SpecBulk: one caller creating issues and updating them,   *)
(* one by one (SpecUpdate) or in bulk (SpecBulk).  The keyword arguments    *)
(* name every allow-listed field alone, names outside the lists alone, both *)
(* together, and nothing at all.                                            *)

\* Field values a caller passes: all but status repeat the value that
\* create_issue stored, so that an accepted update shows in status and in
\* updated_at.
FieldValue ==
    [title |-> Some("t"), description |-> Some(""), status |-> Some("done"),
     priority |-> Some("medium"), assignees |-> <<>>, labels |-> <<>>,
     cycle_id |-> NULL, module_id |-> NULL, due_date |-> NULL,
     estimate_points |-> NULL,
     nonexistent_field |-> Some("x"), sequence_id |-> 7, type |-> Some("bug"),
     comment_count |-> 9, updated_at |-> Some(MaxTime), id |-> Ghost]

Kwargs(names) == [k \in names |-> FieldValue[k]]

UpdateKwargs ==
    {Kwargs({k}) : k \in DOMAIN FieldValue}
        \cup {Kwargs({}),
              Kwargs({"status", "nonexistent_field"}),
              Kwargs({"due_date", "type", "updated_at"}),
              Kwargs({"sequence_id", "comment_count", "id"})}

BulkKwargs ==
    {Kwargs({k}) : k \in allowed_fields_update \cup {"nonexistent_field", "updated_at"}}
        \cup {Kwargs({"due_date", "estimate_points"}),
              Kwargs({"status", "due_date"})}

\* Lists of ids: empty, one id, an id twice around an unknown one, all ids.
BulkLists ==
    {<<>>} \cup {<<i>> : i \in AnyId} \cup {<<i, Ghost, i>> : i \in Stored}
        \cup {AllIds}

NextUpdate ==
    \/ Room /\ create_issue("p1", "t", "", "task", "medium", <<>>, <<>>, 0)
    \/ \E i \in AnyId, kw \in UpdateKwargs, t \in Times :
          update_issue(i, kw, t)

SpecUpdate == Init /\ [][NextUpdate]_vars

NextBulk ==
    \/ Room /\ create_issue("p1", "t", "", "task", "medium", <<>>, <<>>, 0)
    \/ \E ids \in BulkLists, kw \in BulkKwargs, t \in Times :
          bulk_update(ids, kw, t)

SpecBulk == Init /\ [][NextBulk]_vars

TenNames ==
    {"title", "description", "status", "priority", "assignees", "labels",
     "cycle_id", "module_id", "due_date", "estimate_points"}

EightNames == TenNames \ {"due_date", "estimate_points"}

UpdateReturn ==
    ret.op = "update_issue" =>
        /\ ret.val \in BOOLEAN
        /\ ret.val = FALSE <=> ret.arg.names \cap TenNames = {}

UpdateRejectedStep ==
    (ret'.op = "update_issue" /\ ret'.val = FALSE) =>
        UNCHANGED <<issues, cycles, modules, comments>>

\* C3: update_issue returns False exactly when none of the supplied names is
\* one of the ten allow-listed names, and then writes nothing (no field of any
\* stored issue changes, updated_at included); otherwise it returns True, also
\* when the id is not the id of a stored issue.
C3_UpdateReturn == []UpdateReturn /\ [][UpdateRejectedStep]_vars

\* C3 witness: an update of a stored issue that supplied names, none of them
\* allow-listed, has returned False.
C3_Witness ==
    /\ ret.op = "update_issue"
    /\ ret.val = FALSE
    /\ ret.arg.issue_id \in Stored
    /\ ret.arg.names # {}

BulkReturn ==
    ret.op = "bulk_update" =>
        ret.val = IF ret.arg.issue_ids = <<>> \/ ret.arg.names \cap EightNames = {}
                  THEN 0
                  ELSE Cardinality({i \in Stored :
                                      \E k \in DOMAIN ret.arg.issue_ids :
                                         ret.arg.issue_ids[k] = i})

BulkStep ==
    ret'.op = "bulk_update" =>
        /\ DOMAIN issues' = Stored
        /\ UNCHANGED <<cycles, modules, comments>>
        /\ \A i \in Stored :
              (\/ ret'.val = 0
               \/ \A k \in DOMAIN ret'.arg.issue_ids : ret'.arg.issue_ids[k] # i)
                 => issues'[i] = issues[i]

\* C4: bulk_update returns 0, with nothing touched, when the id list is empty
\* or no supplied name is one of the eight allow-listed names; otherwise it
\* returns the number of distinct stored issues whose id occurs in the list
\* (unknown ids and repeated ids are not counted), and touches no other row.
C4_BulkReturn == []BulkReturn /\ [][BulkStep]_vars

\* C4 witness: with two issues stored, a bulk_update of a list that names one
\* of them twice and an unknown id has returned 1.
C4_Witness ==
    /\ ret.op = "bulk_update"
    /\ Cardinality(Stored) = 2
    /\ Len(ret.arg.issue_ids) = 3
    /\ ret.val = 1

----------------------------------------------------------------------------
(* SpecFilter: one caller creating issues in two projects with two          *)
(* priorities, setting and clearing status and cycle, and reading them back *)
(* with get_issues under every combination of the exact filters.            *)

StatusValues == {Some("backlog"), Some("done"), NULL}
PriorityValues == {Some("medium"), Some("high")}
CycleValues == {Some(1), NULL}

NextFilter ==
    \/ \E p \in Projects, pr \in PriorityValues :
          Room /\ create_issue(p, "t", "", "task", Val(pr), <<>>, <<>>, 0)
    \/ \E i \in AnyId :
          \E kw \in {[status |-> v] : v \in StatusValues} \cup {[cycle_id |-> NULL]} :
             update_issue(i, kw, 0)
    \/ \E ids \in BulkLists, v \in StatusValues :
          bulk_update(ids, [status |-> v], 0)
    \/ \E i \in AnyId : add_to_cycle(i, 1)

SpecFilter == Init /\ [][NextFilter]_vars

\* A dict with the key absent, or set to one of the values.
OptKey(key, values) == {<<>>} \cup {[k \in {key} |-> v] : v \in values}

\* Every dict over the exact filters: each of status, priority, cycle_id
\* absent or set to one of its values.
ExactFilters ==
    {f @@ g @@ h : f \in OptKey("status", StatusValues),
                   g \in OptKey("priority", PriorityValues),
                   h \in OptKey("cycle_id", CycleValues)}

\* The issues of the project whose fields equal the supplied filter values.
Selected(project_id, f) ==
    {i \in IssuesOf(project_id) : \A k \in DOMAIN f : issues[i][k] = f[k]}

GetIssuesExact ==
    \A p \in Projects \cup {"p3"} :
       \A f \in ExactFilters :
          /\ Range(get_issues(p, f)) = Selected(p, f)
          /\ Len(get_issues(p, f)) = Cardinality(Selected(p, f))

GetIssuesAfterBulk ==
    \A ids \in BulkLists, v \in StatusValues :
       bulk_update(ids, [status |-> v], 0) =>
          \A p \in Projects :
             Range(get_issues(p, [status |-> v]))' =
                {i \in IssuesOf(p) : i \in Range(ids) \/ issues[i].status = v}

\* C5: in every reachable state get_issues(project_id, filters) returns, each
\* once, exactly the stored issues of that project whose status, priority and
\* cycle_id equal the supplied filter values (all of the project's issues
\* without a filter, none of another project), and right after
\* bulk_update(ids, status=s) the status filter s returns exactly the issues
\* of the project that were targeted or already had status s.
C5_GetIssuesExact == []GetIssuesExact /\ [][GetIssuesAfterBulk]_vars

----------------------------------------------------------------------------
(* SpecLike: one caller creating issues with assignee lists, replacing the  *)
(* assignee and label lists, and reading back with the assignee and label  *)
(* filters.  Names and filter strings are ASCII text without control        *)
(* characters, for which JsonEscape is all that json.dumps escapes.         *)

NameValues == {<<"a">>, <<"B">>, <<"a", "\"", "b">>}

\* Lists of names: none, one name, two names.
NameLists == {<<>>} \cup {<<n>> : n \in NameValues} \cup {<< <<"a">>, <<"B">> >>}

\* Filter strings: names in either case, the LIKE wildcards, a name with a
\* quote, the text between two list items, the empty string.
LikeFilters ==
    {<<"a">>, <<"A">>, <<"b">>, <<"B">>, <<"_">>, <<"%">>, <<"a", "\"", "b">>,
     <<"\"", ",", " ", "\"">>, <<>>}

\* json.loads of a stored list: the list that json.dumps wrote.
json_loads(text) == CHOOSE l \in NameLists : json_dumps(l) = text

NextLike ==
    \/ \E p \in Projects, l \in NameLists :
          Room /\ create_issue(p, "t", "", "task", "medium", l, <<>>, 0)
    \/ \E i \in AnyId, l \in NameLists :
          \/ update_issue(i, [assignees |-> l], 0)
          \/ update_issue(i, [labels |-> l], 0)

SpecLike == Init /\ [][NextLike]_vars

\* f occurs in text as a run of consecutive characters.
Contains(text, f) ==
    \E k \in 0 .. Len(text) - Len(f) : SubSeq(text, k + 1, k + Len(f)) = f

\* C6: get_issues with an assignee filter f (a label filter likewise) returns
\* an issue of the project exactly when f is a contiguous substring of the
\* issue's serialized assignee (label) list, and returns every issue whose
\* list has f as an element.
C6_LikeSubstring ==
    \A p \in Projects, f \in LikeFilters :
       /\ Range(get_issues(p, [assignee |-> f])) =
             {i \in IssuesOf(p) : Contains(Val(issues[i].assignees), f)}
       /\ Range(get_issues(p, [label |-> f])) =
             {i \in IssuesOf(p) : Contains(Val(issues[i].labels), f)}
       /\ \A i \in IssuesOf(p) :
             /\ f \in Range(json_loads(Val(issues[i].assignees)))
                   => i \in Range(get_issues(p, [assignee |-> f]))
             /\ f \in Range(json_loads(Val(issues[i].labels)))
                   => i \in Range(get_issues(p, [label |-> f]))

----------------------------------------------------------------------------
(* SpecLoad: one caller filing issues into cycle 1 and module 1, each issue *)
(* before the next is created, and closing them in the order of creation.  *)

MaxLoad == 50

\* The issue the caller files next, and the issue the caller closes next.
Unfiled == {i \in Stored : IsNull(issues[i].cycle_id) \/ IsNull(issues[i].module_id)}
Closable ==
    {i \in Stored \ Unfiled :
        /\ issues[i].status # Some("done")
        /\ \A j \in Stored : j < i => issues[j].status = Some("done")}

NextLoad ==
    \/ /\ Cardinality(Stored) < MaxLoad
       /\ Unfiled = {}
       /\ create_issue("p1", "t", "", "task", "medium", <<>>, <<>>, 0)
    \/ \E i \in Unfiled : IsNull(issues[i].cycle_id) /\ add_to_cycle(i, 1)
    \/ \E i \in Unfiled : ~IsNull(issues[i].cycle_id) /\ add_to_module(i, 1)
    \/ \E i \in Closable : update_issue(i, [status |-> Some("done")], 0)

SpecLoad == Init /\ [][NextLoad]_vars

\* The largest integer not above 100 * completed / total.
FloorPct(completed, total) ==
    IF total = 0 THEN 0
    ELSE CHOOSE n \in 0 .. 100 :
            n * total <= 100 * completed /\ 100 * completed < (n + 1) * total

\* C7: in every reachable state and for every cycle_id, get_cycle_analytics
\* returns total_issues = the number of stored issues with that cycle_id,
\* completed = the number of those with status "done", remaining = their
\* difference and progress_pct = the integer floor of 100 * completed /
\* total_issues (0 when there is none), between 0 and 100;
\* get_module_progress computes completion_pct by the same rule over the
\* issues with that module_id.
C7_ProgressFloor ==
    \A id \in {1, Ghost} :
       LET a == get_cycle_analytics(Some(id))
           inCycle == {i \in Stored : issues[i].cycle_id = Some(id)}
           doneC == {i \in inCycle : issues[i].status = Some("done")}
           m == get_module_progress(Some(id))
           inModule == {i \in Stored : issues[i].module_id = Some(id)}
           doneM == {i \in inModule : issues[i].status = Some("done")}
       IN /\ a.total_issues = Cardinality(inCycle)
          /\ a.completed = Cardinality(doneC)
          /\ a.remaining = a.total_issues - a.completed
          /\ a.progress_pct = FloorPct(Cardinality(doneC), Cardinality(inCycle))
          /\ a.progress_pct \in 0 .. 100
          /\ m.total = Cardinality(inModule)
          /\ m.completion_pct = FloorPct(Cardinality(doneM), Cardinality(inModule))

----------------------------------------------------------------------------
(* SpecPoints: one caller creating issues, putting them into cycle 1,       *)
(* setting and clearing their status and their estimate, and reading the    *)
(* cycle's analytics.                                                       *)

PointStatusValues == {Some("in_progress"), Some("done"), NULL}
EstimateValues == {NULL, Some(0), Some(3)}

NextPoints ==
    \/ Room /\ create_issue("p1", "t", "", "task", "medium", <<>>, <<>>, 0)
    \/ \E i \in AnyId : add_to_cycle(i, 1)
    \/ \E i \in AnyId, v \in PointStatusValues : update_issue(i, [status |-> v], 0)
    \/ \E i \in AnyId, e \in EstimateValues : update_issue(i, [estimate_points |-> e], 0)

SpecPoints == Init /\ [][NextPoints]_vars

\* The points of an issue: its estimate when set, else 1.
PointsOf(i) ==
    IF issues[i].estimate_points # NULL THEN Val(issues[i].estimate_points) ELSE 1

\* C8: in every reachable state remaining_points of get_cycle_analytics is the
\* sum, over every issue of the cycle whose status is not exactly "done", of
\* its estimate_points when set and of 1 when not set; it is 0 when the cycle
\* has no such issue, and every issue counted in remaining contributes.
C8_RemainingPoints ==
    \A id \in {1, Ghost} :
       LET a == get_cycle_analytics(Some(id))
           notDone == {i \in Stored : /\ issues[i].cycle_id = Some(id)
                                      /\ issues[i].status # Some("done")}
       IN /\ a.remaining_points = SumOver(notDone, [i \in notDone |-> PointsOf(i)])
          /\ notDone = {} => a.remaining_points = 0
          /\ a.remaining = Cardinality(notDone)

----------------------------------------------------------------------------
(* SpecGroups: one caller creating issues of two priorities in two          *)
(* projects, setting and clearing their status, putting them into one of    *)
(* two modules, and reading the grouped counts.                             *)

NextGroups ==
    \/ \E a \in {<<"p1", "medium">>, <<"p1", "high">>, <<"p2", "medium">>} :
          Room /\ create_issue(a[1], "t", "", "task", a[2], <<>>, <<>>, 0)
    \/ \E i \in AnyId, v \in StatusValues : update_issue(i, [status |-> v], 0)
    \/ \E i \in AnyId, m \in {1, Ghost} : add_to_module(i, m)

SpecGroups == Init /\ [][NextGroups]_vars

\* f maps each value of the column among the selected issues to the number
\* of selected issues with that value.
CountsOf(f, selected, col) ==
    /\ DOMAIN f = {issues[i][col] : i \in selected}
    /\ \A v \in DOMAIN f :
          /\ f[v] >= 1
          /\ f[v] = Cardinality({i \in selected : issues[i][col] = v})
    /\ SumOver(DOMAIN f, f) = Cardinality(selected)
    /\ selected = {} => f = <<>>

\* C9: by_status of get_module_progress, and priority_distribution and
\* status_distribution of get_project_analytics, map each distinct value
\* present among the selected issues (those of the module, those of the
\* project) to the number of selected issues with that value: every count is
\* at least 1, the counts sum to the number of selected issues (total, for a
\* module), no other issue is counted, and the mapping is empty when no issue
\* is selected.
C9_GroupedCounts ==
    /\ \A m \in {1, Ghost, 2} :
          LET r == get_module_progress(Some(m))
              selected == {i \in Stored : issues[i].module_id = Some(m)}
          IN /\ CountsOf(r.by_status, selected, "status")
             /\ r.total = Cardinality(selected)
    /\ \A p \in Projects \cup {"p3"} :
          LET a == get_project_analytics(p)
          IN /\ CountsOf(a.priority_distribution, IssuesOf(p), "priority")
             /\ CountsOf(a.status_distribution, IssuesOf(p), "status")

\* C9 witness: an issue of module 1 and an issue of the other project in the
\* other module both have their status cleared.
C9_Witness ==
    \E i, j \in Stored :
       /\ i # j
       /\ issues[i].module_id = Some(1)
       /\ issues[j].module_id = Some(Ghost)
       /\ issues[i].status = issues[j].status
       /\ issues[i].project_id # issues[j].project_id
       /\ issues[i].status = NULL

----------------------------------------------------------------------------
(* SpecVelocity: one caller running every writing operation: cycles and a   *)
(* module are created for project p1, issues are put into them, closed one  *)
(* by one and in bulk with keyword arguments that also name the cycle       *)
(* counters, and commented.                                                 *)

CloseKwargs ==
    [status |-> Some("done"), completed_count |-> 5, issues_count |-> 5, progress |-> 5]

NextVelocity ==
    \/ Room /\ create_issue("p1", "t", "", "task", "medium", <<>>, <<>>, 0)
    \/ create_cycle("p1", "c", 0, 1)
    \/ create_module("p1", "m", "")
    \/ \E i \in Stored, c \in DOMAIN cycles : add_to_cycle(i, c)
    \/ \E i \in Stored, m \in DOMAIN modules : add_to_module(i, m)
    \/ \E i \in AnyId : update_issue(i, CloseKwargs, 0)
    \/ bulk_update(AllIds, CloseKwargs, 0)
    \/ \E i \in Stored \cap {1} : comment(i, "u", "b", 0)

SpecVelocity == Init /\ [][NextVelocity]_vars

CountersZero ==
    \A c \in DOMAIN cycles :
       /\ cycles[c].issues_count = 0
       /\ cycles[c].completed_count = 0
       /\ cycles[c].progress = 0

VelocityZero ==
    \A p \in Projects \cup {"p3"} : get_project_analytics(p).velocity = FloatZero

CountersKept ==
    \A c \in DOMAIN cycles :
       /\ c \in DOMAIN cycles'
       /\ cycles'[c].issues_count = cycles[c].issues_count
       /\ cycles'[c].completed_count = cycles[c].completed_count
       /\ cycles'[c].progress = cycles[c].progress

----------------------------------------------------------------------------
(* SpecMembership: one caller creating issues of project p1 and a cycle and *)
(* a module of project p2, and moving stored and unknown issues between     *)
(* that cycle (module) and one that was never created.                      *)

NextMembership ==
    \/ Room /\ create_issue("p1", "t", "", "task", "medium", <<>>, <<>>, 0)
    \/ create_cycle("p2", "c", 0, 1)
    \/ create_module("p2", "m", "")
    \/ \E i \in AnyId, c \in {1, Ghost} : add_to_cycle(i, c)
    \/ \E i \in AnyId, m \in {1, Ghost} : add_to_module(i, m)

SpecMembership == Init /\ [][NextMembership]_vars

\* The step of an add_to_cycle or add_to_module call: True is returned, the
\* one field of the one issue is set, nothing else changes.
MembershipStep ==
    /\ ret'.op = "add_to_cycle" =>
          /\ ret'.val = TRUE
          /\ UNCHANGED <<cycles, modules, comments>>
          /\ DOMAIN issues' = Stored
          /\ \A i \in Stored :
                issues'[i] = IF i = ret'.arg.issue_id
                             THEN [issues[i] EXCEPT !.cycle_id = Some(ret'.arg.cycle_id)]
                             ELSE issues[i]
    /\ ret'.op = "add_to_module" =>
          /\ ret'.val = TRUE
          /\ UNCHANGED <<cycles, modules, comments>>
          /\ DOMAIN issues' = Stored
          /\ \A i \in Stored :
                issues'[i] = IF i = ret'.arg.issue_id
                             THEN [issues[i] EXCEPT !.module_id = Some(ret'.arg.module_id)]
                             ELSE issues[i]

\* The analytics of all cycles (modules) together count each issue that is
\* in a cycle (module) once.
CountedOnce ==
    /\ SumOver({1, 2, Ghost}, [c \in {1, 2, Ghost} |->
                                  get_cycle_analytics(Some(c)).total_issues])
          = Cardinality({i \in Stored : issues[i].cycle_id # NULL})
    /\ SumOver({1, 2, Ghost}, [m \in {1, 2, Ghost} |->
                                  get_module_progress(Some(m)).total])
          = Cardinality({i \in Stored : issues[i].module_id # NULL})

\* C11: add_to_cycle(issue_id, cycle_id) always returns True and, for a
\* stored issue, sets its cycle_id to the given value, replacing any earlier
\* one, whether or not the cycle exists or is of the issue's project; no other
\* field of the issue (updated_at included), no other issue and no cycle row
\* changes, so every issue is counted in the analytics of at most one cycle.
\* add_to_module does the same with module_id.
C11_Membership == []CountedOnce /\ [][MembershipStep]_vars

\* C11 witness: the last call moved a stored issue of project p1, already in
\* a module that was never created, into the cycle of project p2.
C11_Witness ==
    /\ ret.op = "add_to_cycle"
    /\ ret.arg.issue_id \in Stored
    /\ ret.arg.cycle_id \in DOMAIN cycles
    /\ cycles[ret.arg.cycle_id].project_id # issues[ret.arg.issue_id].project_id
    /\ issues[ret.arg.issue_id].cycle_id = Some(ret.arg.cycle_id)
    /\ issues[ret.arg.issue_id].module_id = Some(Ghost)

----------------------------------------------------------------------------
(* SpecThread: one caller creating issues and commenting on stored and      *)
(* unknown issues as two users; the wall clock reads any of its values at   *)
(* each call (it is local time, and is set back when it is corrected or     *)
(* when daylight saving time ends).                                         *)

NextThread ==
    \/ Room /\ create_issue("p1", "t", "", "task", "medium", <<>>, <<>>, 0)
    \/ \E i \in AnyId, u \in {"alice", "bob"}, t \in Times : comment(i, u, "b", t)

SpecThread == Init /\ [][NextThread]_vars

\* The ids of the comments get_comments returns, in order.
ReturnedIds(tbl, issue_id) ==
    LET OfIssue(r) == r.issue_id = issue_id
        rows == OrderByCreatedAt(SelectSeq(tbl, OfIssue))
    IN [k \in DOMAIN rows |-> rows[k].id]

\* The ids of the comments made for the issue, in the order of the calls.
InsertedIds(tbl, issue_id) ==
    LET OfIssue(r) == r.issue_id = issue_id
        rows == SelectSeq(tbl, OfIssue)
    IN [k \in DOMAIN rows |-> rows[k].id]

Position(seq, x) == CHOOSE k \in DOMAIN seq : seq[k] = x

InInsertionOrder ==
    \A i \in IssueIds \cup {Ghost} :
       /\ ReturnedIds(comments, i) = InsertedIds(comments, i)
       /\ \A k \in DOMAIN get_comments(i) :
             get_comments(i)[k].id = ReturnedIds(comments, i)[k]

KeepsPositions ==
    \A i \in IssueIds \cup {Ghost} :
       LET before == ReturnedIds(comments, i)
           after == ReturnedIds(comments', i)
       IN \A a, b \in Range(before) :
             /\ a \in Range(after)
             /\ Position(before, a) < Position(before, b)
                   => Position(after, a) < Position(after, b)

\* C12: get_comments(issue_id) returns every comment ever added for the issue
\* and none of another issue, in the order of the comment calls, also when
\* comments carry the same creation timestamp; a comment once returned is
\* returned by every later get_comments at the same relative position.
C12_InsertionOrder == []InInsertionOrder /\ [][KeepsPositions]_vars

----------------------------------------------------------------------------
(* SpecUnknown: one caller running every operation that takes an issue id   *)
(* on stored and on unknown issues, with a cycle and a module that exist    *)
(* and ones that were never created, and reading comments and analytics.    *)

NextUnknown ==
    \/ Room /\ create_issue("p1", "t", "", "task", "medium", <<>>, <<>>, 0)
    \/ create_cycle("p1", "c", 0, 1)
    \/ create_module("p1", "m", "")
    \/ \E i \in AnyId : update_issue(i, [status |-> Some("done")], 0)
    \/ \E ids \in {<<Ghost>>, AllIds} : bulk_update(ids, [status |-> Some("done")], 0)
    \/ \E i \in AnyId, c \in {1, Ghost} : add_to_cycle(i, c)
    \/ \E i \in AnyId, m \in {1, Ghost} : add_to_module(i, m)
    \/ \E i \in AnyId : comment(i, "u", "b", 0)

SpecUnknown == Init /\ [][NextUnknown]_vars

\* The last call named no stored issue.
OnUnknownIssue(r) ==
    \/ /\ r.op \in {"update_issue", "add_to_cycle", "add_to_module", "comment"}
       /\ r.arg.issue_id \notin Stored
    \/ /\ r.op = "bulk_update"
       /\ Range(r.arg.issue_ids) \cap Stored = {}

VacuousStep ==
    OnUnknownIssue(ret') => UNCHANGED <<issues, cycles, modules, comments>>

ZeroAnalytics(a) ==
    /\ a.total_issues = 0
    /\ a.completed = 0
    /\ a.remaining = 0
    /\ a.progress_pct = 0
    /\ a.remaining_points = 0

EmptyReads ==
    /\ \A i \in (IssueIds \cup {Ghost}) \ Stored : get_comments(i) = <<>>
    /\ \A c \in (CycleIds \cup {Ghost}) \ DOMAIN cycles :
          ZeroAnalytics(get_cycle_analytics(Some(c)))
    /\ \A m \in (ModuleIds \cup {Ghost}) \ DOMAIN modules :
          LET r == get_module_progress(Some(m))
          IN r.total = 0 /\ r.by_status = <<>> /\ r.completion_pct = 0

\* C13: update_issue, bulk_update, add_to_cycle, add_to_module and comment
\* called with an issue id that is not stored leave the store as it was, and
\* get_comments, get_cycle_analytics and get_module_progress for an id that
\* is not in the store return the empty sequence or all-zero aggregates.
C13_Vacuous == []EmptyReads /\ [][VacuousStep]_vars

----------------------------------------------------------------------------
(* SpecPatch: one caller creating issues late on the wall clock and         *)
(* updating stored and unknown issues, at any reading of the clock, with    *)
(* new values for allow-listed fields next to names outside the allow-list  *)
(* that aim at the columns an update must not reach.                        *)

PatchKwargs ==
    {[title |-> Some("n"), status |-> Some("done"), assignees |-> << <<"a">> >>,
      updated_at |-> Some(isoformat(0))],
     [estimate_points |-> Some(3), cycle_id |-> Some(1), id |-> Ghost,
      project_id |-> "p2", sequence_id |-> 7, type |-> Some("bug"),
      created_at |-> Some(isoformat(0)), comment_count |-> 9]}

NextPatch ==
    \/ Room /\ create_issue("p1", "t", "", "task", "medium", <<>>, <<>>, MaxTime)
    \/ \E i \in AnyId, kw \in PatchKwargs, t \in Times : update_issue(i, kw, t)

SpecPatch == Init /\ [][NextPatch]_vars

\* What an accepted update_issue(i, kw, t) leaves in column f of issue j: the
\* supplied value in an allow-listed column of issue i (a list reads back as
\* supplied), the clock reading in its updated_at, the old value elsewhere.
PatchedColumn(i, kw, t, j, f) ==
    IF j = i /\ f \in DOMAIN kw \cap TenNames
    THEN IF f \in {"assignees", "labels"}
         THEN json_loads(Val(issues'[j][f])) = kw[f]
         ELSE issues'[j][f] = kw[f]
    ELSE IF j = i /\ f = "updated_at"
         THEN issues'[j][f] = Some(isoformat(t))
         ELSE issues'[j][f] = issues[j][f]

PatchStep ==
    \A i \in IssueIds \cup {Ghost}, kw \in PatchKwargs, t \in Times :
       update_issue(i, kw, t) =>
          /\ ret'.val = TRUE
          /\ DOMAIN issues' = Stored
          /\ UNCHANGED <<cycles, modules, comments>>
          /\ \A j \in Stored : \A f \in DOMAIN issues[j] : PatchedColumn(i, kw, t, j, f)

NeverEarlier ==
    \A j \in Stored : TextLeq(Val(issues[j].updated_at), Val(issues'[j].updated_at))

\* C14: an accepted update_issue(issue_id, fields) changes, on the one stored
\* issue with that id, exactly the supplied allow-listed fields (to the
\* supplied values) and updated_at, refreshed to now and never earlier than
\* its previous value; names outside the allow-list are dropped, so id,
\* project_id, sequence_id, type, created_at and comment_count of that issue
\* never change, and no field of any other issue changes.
C14_UpdateFrame == [][PatchStep /\ NeverEarlier]_vars

\* C14 as amended: the same, with updated_at set to the reading of the wall
\* clock taken by the call, which is earlier than the previous value when the
\* clock was set back in between.
C14_UpdateFrameNow == [][PatchStep]_vars

\* C14 witness: an accepted update that also named columns outside the
\* allow-list has left a stored issue with both sets of new values and an
\* updated_at earlier than its created_at.
C14_Witness ==
    /\ ret.op = "update_issue"
    /\ ret.val = TRUE
    /\ ret.arg.issue_id \in Stored
    /\ "sequence_id" \in ret.arg.names
    /\ LET row == issues[ret.arg.issue_id]
       IN /\ row.title = Some("n")
          /\ row.estimate_points = Some(3)
          /\ row.sequence_id = 1
          /\ row.updated_at # row.created_at
          /\ TextLeq(Val(row.updated_at), Val(row.created_at))

----------------------------------------------------------------------------
(* SpecRace: three callers creating issues in two projects concurrently,    *)
(* each call in its two steps, at any reading of the clock, while stored    *)
(* and unknown issues are being updated.                                    *)

Creators == {"a", "b", "c"}

NextRace ==
    \/ \E caller \in Creators, p \in Projects :
          /\ Cardinality(Stored) + Cardinality(DOMAIN calls) < MaxIssues
          /\ create_issue_select(caller, p)
    \/ \E caller \in Creators, t \in Times :
          create_issue_insert(caller, "t", "", "task", "medium", <<>>, <<>>, t)
    \/ \E i \in AnyId :
          update_issue(i, [status |-> Some("done"), sequence_id |-> 7], 0)

SpecRace == Init /\ [][NextRace]_vars

\* What a caller read is never ahead of the store.
ReadNotAhead ==
    \A caller \in DOMAIN calls :
       /\ calls[caller].sequence_id >= 1
       /\ calls[caller].sequence_id <= OrZero(MaxSeq(calls[caller].project_id)) + 1

\* The step that ends a call stores the caller's issue under the number the
\* caller computed from its own read, whatever was stored since.
StaleInsert ==
    \A caller \in DOMAIN calls :
       caller \notin DOMAIN calls' =>
          LET issue_id == ret'.val
          IN /\ DOMAIN issues' = Stored \cup {issue_id}
             /\ issue_id \notin Stored
             /\ issues'[issue_id].project_id = calls[caller].project_id
             /\ issues'[issue_id].sequence_id = calls[caller].sequence_id
             /\ \A i \in Stored : issues'[i] = issues[i]

\* C15: with concurrent create_issue calls the read of MAX(sequence_id) and
\* the insert are not isolated from the other caller: a call stores the
\* number it computed from its read even when the other caller stored an
\* issue of the project since, so two calls that read the same maximum store
\* two issues with the same (project_id, sequence_id).
C15_RaceDuplicates == []ReadNotAhead /\ [][StaleInsert]_vars

\* C15 witness: two stored issues of one project carry the same sequence_id.
C15_Witness ==
    \E i, j \in Stored :
       /\ i # j
       /\ issues[i].project_id = issues[j].project_id
       /\ issues[i].sequence_id = issues[j].sequence_id

====
